---- MODULE Spec2Model ----
(***************************************************************************)
(* Model of property_bot.py: a Telegram bot whose handlers (start,         *)
(* menu_command, button_click) answer one update each with a sequence of   *)
(* API calls.  The bot keeps no state between updates, so the state of the *)
(* model is the last update handled, what the environment answered during  *)
(* it (welcome image on disk, spreadsheet read outcome and rows, outcome   *)
(* of every media-group send) and the ordered log of API calls the handler *)
(* made.  Application.run_polling takes the next update only when the      *)
(* handler of the previous one has returned; nothing of an interaction is  *)
(* kept for the next.                                                      *)
(*                                                                         *)
(* Strings that the code takes apart (spreadsheet cells) are sequences of  *)
(* one-character strings; message texts are sequences of tokens, a token   *)
(* being a literal of the source or one character of a cell.  The emoji    *)
(* that prefix the labels of the listing text are left out of the tokens.  *)
(*                                                                         *)
(* Failure model: the failures are those the handlers catch, i.e. the      *)
(* FileNotFoundError of open('welcome_image.jpg'), an exception of the     *)
(* spreadsheet get(...).execute() and an exception of reply_media_group.   *)
(* reply_text, reply_photo of an existing file and query.answer are taken  *)
(* to be delivered.                                                        *)
(***************************************************************************)
EXTENDS Integers, Sequences, FiniteSets, TLC

VARIABLES update, image_exists, fetch_ok, values, send_ok, calls

vars == <<update, image_exists, fetch_ok, values, send_ok, calls>>

(***************************************************************************)
(* Bounds                                                                  *)
(***************************************************************************)
\* rows returned by one spreadsheet read (Spec)
MaxRows == 2
\* characters of the image-URL cell of a row (Spec)
MaxLen == 1
\* characters of the image-URL cell of the single row (SpecUrls)
MaxUrlLen == 4

(***************************************************************************)
(* Program constants                                                       *)
(***************************************************************************)
RANGE_NAME == "Sheet1!A2:F"
WHATSAPP_NUMBER == "+60175773070"
\* len(row) >= 6
MinFields == 6

\* characters a cell is made of; " " is the whitespace str.strip() removes,
\* "," the separator of str.split(',')
Chars == {"a", "b", " ", ","}
\* the characters of the cells of multi-row reads
FewChars == {"a", " ", ","}
Whitespace == {" "}
Comma == ","

StringsUpTo(chars, n) == UNION {[1..k -> chars] : k \in 0..n}

(***************************************************************************)
(* Message texts of the source                                             *)
(***************************************************************************)
WelcomeText == <<"Welcome to Property Azizi Bot! How can I assist you today?">>
ChooseText == <<"Please choose an option:">>
WhatElseText == <<"What else would you like to do?">>
ProfileText == <<"Here's the Property Agent Profile: [Add profile details here]">>
whatsapp_link == <<"https://wa.me/", WHATSAPP_NUMBER>>
WhatsAppText == <<"Click here to chat on WhatsApp: ">> \o whatsapp_link
NoPropertiesText == <<"No properties found.">>
ClosingText ==
    <<"These are all the available properties. Contact the agent for more information: ">>
        \o whatsapp_link
ErrorText == <<"An error occurred while fetching properties. Please try again later.">>
ImagesLabel == <<"\n\nImages: ">>

\* callback_data of the three buttons, in keyboard order
get_main_menu_keyboard == <<"profile", "properties", "whatsapp">>
NoMarkup == <<>>

(***************************************************************************)
(* API calls, as logged                                                    *)
(***************************************************************************)
Call(kind, range, text, markup, media, ok) ==
    [kind |-> kind, range |-> range, text |-> text, markup |-> markup,
     media |-> media, ok |-> ok]

answer == Call("answer", "", <<>>, NoMarkup, <<>>, TRUE)
sheet_get(range, ok) == Call("sheet_get", range, <<>>, NoMarkup, <<>>, ok)
reply_text(text, markup) == Call("reply_text", "", text, markup, <<>>, TRUE)
reply_photo(caption) == Call("reply_photo", "", caption, NoMarkup, <<>>, TRUE)
reply_media_group(media, ok) == Call("reply_media_group", "", <<>>, NoMarkup, media, ok)
InputMediaPhoto(media, caption) == [media |-> media, caption |-> caption]

(***************************************************************************)
(* str.split(','), str.strip(), ', '.join(...)                             *)
(***************************************************************************)
RECURSIVE lstrip(_)
lstrip(s) == IF s # <<>> /\ Head(s) \in Whitespace THEN lstrip(Tail(s)) ELSE s

RECURSIVE rstrip(_)
rstrip(s) ==
    IF s # <<>> /\ s[Len(s)] \in Whitespace THEN rstrip(SubSeq(s, 1, Len(s) - 1)) ELSE s

\* mutant: str.lstrip() in place of str.strip()
strip_left_only(s) == lstrip(s)

strip(s) == rstrip(lstrip(s))

RECURSIVE split(_)
split(s) ==
    IF \E i \in 1..Len(s) : s[i] = Comma
    THEN LET i == CHOOSE k \in 1..Len(s) :
                      s[k] = Comma /\ \A j \in 1..(k - 1) : s[j] # Comma
         IN  <<SubSeq(s, 1, i - 1)>> \o split(SubSeq(s, i + 1, Len(s)))
    ELSE <<SubSeq(s, 1, Len(s))>>

RECURSIVE join(_)
join(urls) ==
    IF urls = <<>> THEN <<>>
    ELSE IF Len(urls) = 1 THEN urls[1]
    ELSE urls[1] \o <<",", " ">> \o join(Tail(urls))

\* mutant: empty URLs are dropped
image_urls_nonempty(field) ==
    LET pieces == split(field)
        NonEmpty(u) == u # <<>>
    IN  SelectSeq([i \in 1..Len(pieces) |-> strip(pieces[i])], NonEmpty)

\* [url.strip() for url in row[5].split(',')]
image_urls_of(field) == LET pieces == split(field)
                        IN  [i \in 1..Len(pieces) |-> strip(pieces[i])]

(***************************************************************************)
(* Listing rendering                                                       *)
(***************************************************************************)
property_info(row) ==
    <<"Price: ">> \o row[1] \o <<"\nLocation: ">> \o row[2] \o <<"\nSize: ">> \o row[3]
        \o <<"\nBedrooms: ">> \o row[4] \o <<"\nDetails: ">> \o row[5]

\* mutant: only the first URL is named
fallback_text_first_url(info, image_urls) == info \o ImagesLabel \o image_urls[1]

fallback_text(info, image_urls) == info \o ImagesLabel \o join(image_urls)

media_group_of(info, image_urls) ==
    [i \in 1..Len(image_urls) |->
        IF i = 1 THEN InputMediaPhoto(image_urls[1], info)
        ELSE InputMediaPhoto(image_urls[i], <<>>)]

\* body of the for loop of list_properties for one row; ok: whether
\* reply_media_group of this row returns rather than raises
render_row(row, ok) ==
    IF Len(row) >= MinFields
    THEN LET info == property_info(row)
             image_urls == image_urls_of(row[6])
         IN  IF image_urls # <<>>
             THEN <<reply_media_group(media_group_of(info, image_urls), ok)>>
                      \o (IF ok THEN <<>>
                          ELSE <<reply_text(fallback_text(info, image_urls), NoMarkup)>>)
             ELSE <<reply_text(info, NoMarkup)>>
    ELSE <<>>

\* mutant: the loop ends at the first row with too few cells
RECURSIVE render_rows_break_on_short(_, _)
render_rows_break_on_short(rows, oks) ==
    IF rows = <<>> \/ Len(Head(rows)) < MinFields THEN <<>>
    ELSE render_row(Head(rows), Head(oks))
             \o render_rows_break_on_short(Tail(rows), Tail(oks))

\* mutant: the loop ends at the first failed media-group send
RECURSIVE render_rows_break_on_failure(_, _)
render_rows_break_on_failure(rows, oks) ==
    IF rows = <<>> THEN <<>>
    ELSE render_row(Head(rows), Head(oks))
             \o (IF Len(Head(rows)) >= MinFields /\ ~Head(oks) THEN <<>>
                 ELSE render_rows_break_on_failure(Tail(rows), Tail(oks)))

RECURSIVE render_rows(_, _)
render_rows(rows, oks) ==
    IF rows = <<>> THEN <<>>
    ELSE render_row(Head(rows), Head(oks)) \o render_rows(Tail(rows), Tail(oks))

\* mutant: a failed read is taken for an empty sheet
list_properties_failure_as_empty(fetched, rows, oks) ==
    <<sheet_get(RANGE_NAME, fetched)>>
        \o (IF ~fetched \/ rows = <<>> THEN <<reply_text(NoPropertiesText, NoMarkup)>>
            ELSE render_rows(rows, oks) \o <<reply_text(ClosingText, NoMarkup)>>)

\* mutant: no test for an empty sheet
list_properties_no_empty_test(fetched, rows, oks) ==
    <<sheet_get(RANGE_NAME, fetched)>>
        \o (IF ~fetched THEN <<reply_text(ErrorText, NoMarkup)>>
            ELSE render_rows(rows, oks) \o <<reply_text(ClosingText, NoMarkup)>>)

\* mutant: a failed read is tried once more
list_properties_retry(fetched, rows, oks) ==
    <<sheet_get(RANGE_NAME, fetched)>>
        \o (IF ~fetched
            THEN <<sheet_get(RANGE_NAME, fetched), reply_text(ErrorText, NoMarkup)>>
            ELSE IF rows = <<>> THEN <<reply_text(NoPropertiesText, NoMarkup)>>
            ELSE render_rows(rows, oks) \o <<reply_text(ClosingText, NoMarkup)>>)

list_properties(fetched, rows, oks) ==
    <<sheet_get(RANGE_NAME, fetched)>>
        \o (IF ~fetched THEN <<reply_text(ErrorText, NoMarkup)>>
            ELSE IF rows = <<>> THEN <<reply_text(NoPropertiesText, NoMarkup)>>
            ELSE render_rows(rows, oks) \o <<reply_text(ClosingText, NoMarkup)>>)

(***************************************************************************)
(* Handlers                                                                *)
(***************************************************************************)
show_main_menu == <<reply_text(ChooseText, get_main_menu_keyboard)>>

\* mutant: the text greeting is sent whether or not the photo was
start_photo_and_text(exists) ==
    (IF exists THEN <<reply_photo(WelcomeText)>> ELSE <<>>)
        \o <<reply_text(WelcomeText, NoMarkup)>>
        \o show_main_menu

start(exists) ==
    (IF exists THEN <<reply_photo(WelcomeText)>>
     ELSE <<reply_text(WelcomeText, NoMarkup)>>)
        \o show_main_menu

menu_command == show_main_menu

\* mutant: unknown callback data returns before the menu
button_click_returns_early(data, fetched, rows, oks) ==
    <<answer>>
        \o (IF data = "profile" THEN <<reply_text(ProfileText, NoMarkup)>>
            ELSE IF data = "properties" THEN list_properties(fetched, rows, oks)
            ELSE IF data = "whatsapp" THEN <<reply_text(WhatsAppText, NoMarkup)>>
            ELSE <<>>)
        \o (IF data \in {"profile", "properties", "whatsapp"}
            THEN <<reply_text(WhatElseText, get_main_menu_keyboard)>>
            ELSE <<>>)

button_click(data, fetched, rows, oks) ==
    <<answer>>
        \o (IF data = "profile" THEN <<reply_text(ProfileText, NoMarkup)>>
            ELSE IF data = "properties" THEN list_properties(fetched, rows, oks)
            ELSE IF data = "whatsapp" THEN <<reply_text(WhatsAppText, NoMarkup)>>
            ELSE <<>>)
        \o <<reply_text(WhatElseText, get_main_menu_keyboard)>>

(***************************************************************************)
(* Inputs                                                                  *)
(***************************************************************************)
CallbackData == {"profile", "properties", "whatsapp", "other"}

\* the five text cells of a row, the price telling rows apart
Prices == {<<"1">>, <<"2">>}
BaseRow(price) == <<price, <<"K", "L">>, <<"7">>, <<"3">>, <<"d">>>>

\* rows the Sheets API can return for A2:F: trailing empty cells are left
\* out, so a row has 0..6 cells
ShortRows == {SubSeq(BaseRow(<<"1">>), 1, n) : n \in {0, 5}}
FullRows(fields) == {BaseRow(p) \o <<f>> : p \in Prices, f \in fields}
Rows(fields) == ShortRows \cup FullRows(fields)

SeqsUpTo(S, n) == UNION {[1..k -> S] : k \in 0..n}

\* send outcomes only matter for the rows that are rendered
Outcomes(rows) ==
    {oks \in [1..Len(rows) -> BOOLEAN] :
        \A i \in 1..Len(rows) : Len(rows[i]) < MinFields => oks[i]}

NoUpdate == [kind |-> "none", data |-> ""]

(***************************************************************************)
(* State machine                                                           *)
(***************************************************************************)
Init ==
    /\ update = NoUpdate
    /\ image_exists = TRUE
    /\ fetch_ok = TRUE
    /\ values = <<>>
    /\ send_ok = <<>>
    /\ calls = <<>>

\* CommandHandler("start", start)
Start ==
    /\ update = NoUpdate
    /\ \E exists \in BOOLEAN :
        /\ update' = [kind |-> "start", data |-> ""]
        /\ image_exists' = exists
        /\ fetch_ok' = TRUE
        /\ values' = <<>>
        /\ send_ok' = <<>>
        /\ calls' = start(exists)

\* CommandHandler("menu", menu_command)
MenuCommand ==
    /\ update = NoUpdate
    /\ update' = [kind |-> "menu", data |-> ""]
    /\ image_exists' = TRUE
    /\ fetch_ok' = TRUE
    /\ values' = <<>>
    /\ send_ok' = <<>>
    /\ calls' = menu_command

\* CallbackQueryHandler(button_click), the read returning rows out of rowsets
ButtonClickOn(rowsets) ==
    /\ update = NoUpdate
    /\ \E data \in CallbackData :
        \E fetched \in (IF data = "properties" THEN BOOLEAN ELSE {TRUE}) :
            \E rows \in (IF data = "properties" /\ fetched THEN rowsets ELSE {<<>>}) :
                \E oks \in Outcomes(rows) :
                    /\ update' = [kind |-> "callback", data |-> data]
                    /\ image_exists' = TRUE
                    /\ fetch_ok' = fetched
                    /\ values' = rows
                    /\ send_ok' = oks
                    /\ calls' = button_click(data, fetched, rows, oks)

ButtonClick == ButtonClickOn(SeqsUpTo(Rows(StringsUpTo(FewChars, MaxLen)), MaxRows))

\* a click whose read returns one full row with any image-URL cell
ButtonClickUrls == ButtonClickOn(SeqsUpTo(FullRows(StringsUpTo(Chars, MaxUrlLen)), 1))

\* the handler has returned: run_polling waits for the next update, the
\* request's data are dropped
RunPolling ==
    /\ update # NoUpdate
    /\ update' = NoUpdate
    /\ image_exists' = TRUE
    /\ fetch_ok' = TRUE
    /\ values' = <<>>
    /\ send_ok' = <<>>
    /\ calls' = <<>>

Next == Start \/ MenuCommand \/ ButtonClick \/ RunPolling

Spec == Init /\ [][Next]_vars

NextUrls == ButtonClickUrls \/ RunPolling

SpecUrls == Init /\ [][NextUrls]_vars

(***************************************************************************)
(* Properties                                                              *)
(***************************************************************************)
Idx == 1..Len(calls)

Count(P(_)) == Cardinality({i \in Idx : P(calls[i])})

\* sub occurs in text as a contiguous run of tokens
Contains(text, sub) ==
    \E i \in 0..(Len(text) - Len(sub)) :
        \A j \in 1..Len(sub) : text[i + j] = sub[j]

IsMenu(c) == c.kind = "reply_text" /\ c.markup = get_main_menu_keyboard
IsGreeting(c) == c.kind \in {"reply_photo", "reply_text"} /\ c.text = WelcomeText
IsMediaGroup(c) == c.kind = "reply_media_group"
IsFailedGroup(c) == c.kind = "reply_media_group" /\ ~c.ok
IsSheetGet(c) == c.kind = "sheet_get"
IsText(t, c) == c.kind = "reply_text" /\ c.text = t
IsError(c) == IsText(ErrorText, c)
IsClosing(c) == IsText(ClosingText, c)
IsNoProperties(c) == IsText(NoPropertiesText, c)
\* a text reply carrying the "Images:" part of the fallback
IsFallback(c) == c.kind = "reply_text" /\ Contains(c.text, ImagesLabel)
\* a reply the user sees for one listing
IsListingReply(c) == (c.kind = "reply_media_group" /\ c.ok) \/ IsFallback(c)
\* a message of the chat that is not the menu
IsHandlerReply(c) ==
    c.kind \in {"reply_text", "reply_photo", "reply_media_group"} /\ ~IsMenu(c)

IsFull(row) == Len(row) >= MinFields
FullValues == SelectSeq(values, IsFull)
MediaGroups == SelectSeq(calls, IsMediaGroup)
ListingReplies == SelectSeq(calls, IsListingReply)
\* send_ok of the rows that are rendered, in row order
FullOks ==
    LET RECURSIVE pick(_)
        pick(i) == IF i > Len(values) THEN <<>>
                   ELSE (IF IsFull(values[i]) THEN <<send_ok[i]>> ELSE <<>>) \o pick(i + 1)
    IN  pick(1)

PropertiesClick == update = [kind |-> "callback", data |-> "properties"]

GreetingThenMenuOnStartAndMenu ==
    update.kind \in {"start", "menu"} =>
        /\ Count(IsGreeting) = 1
        /\ Count(IsMenu) = 1
        /\ \A i, j \in Idx : IsGreeting(calls[i]) /\ IsMenu(calls[j]) => i < j

\* C2 amended: start sends exactly one greeting (the photo when the image
\* file exists, the text when it does not, never both) and then the menu;
\* menu sends the menu alone, no greeting
GreetingOnStartOnly ==
    /\ update.kind = "start" =>
        /\ Len(calls) = 2
        /\ IsGreeting(calls[1])
        /\ calls[1].kind = (IF image_exists THEN "reply_photo" ELSE "reply_text")
        /\ IsMenu(calls[2])
    /\ update.kind = "menu" =>
        /\ Count(IsGreeting) = 0
        /\ Len(calls) = 1
        /\ IsMenu(calls[1])

MenuCommandWithoutGreeting ==
    /\ update.kind = "menu"
    /\ Count(IsGreeting) = 0
    /\ Count(IsMenu) = 1

\* C3: a failed media-group send is followed at once by one text reply that
\* contains the caption of the failed group and every URL of the group;
\* there are as many fallback texts as failed sends and as many media-group
\* attempts as rendered rows (no second attempt)
FallbackAfterFailedGroup ==
    /\ \A i \in Idx :
        IsFailedGroup(calls[i]) =>
            /\ i < Len(calls)
            /\ calls[i + 1].kind = "reply_text"
            /\ calls[i + 1].markup = NoMarkup
            /\ Contains(calls[i + 1].text, calls[i].media[1].caption)
            /\ Contains(calls[i + 1].text, ImagesLabel)
            /\ \A j \in 1..Len(calls[i].media) :
                   Contains(calls[i + 1].text, calls[i].media[j].media)
    /\ Count(IsFallback) = Count(IsFailedGroup)
    /\ PropertiesClick /\ fetch_ok => Len(MediaGroups) = Len(FullValues)

FailedGroupOfTwoUrls ==
    /\ PropertiesClick
    /\ \E i \in Idx :
        /\ IsFailedGroup(calls[i])
        /\ Len(calls[i].media) = 2
        /\ calls[i].media[1].media = <<"a">>
        /\ calls[i].media[2].media = <<"b">>
        /\ IsFallback(calls[i + 1])

\* C4: a failed read during a properties click gives the error message
\* once, no listing reply, no closing message, and the menu last
FetchFailureCaught ==
    PropertiesClick /\ ~fetch_ok =>
        /\ Count(IsError) = 1
        /\ Count(IsMediaGroup) = 0
        /\ Count(IsFallback) = 0
        /\ Count(IsClosing) = 0
        /\ Count(IsHandlerReply) = 1
        /\ IsMenu(calls[Len(calls)])

FetchFailed ==
    /\ PropertiesClick
    /\ ~fetch_ok
    /\ Count(IsError) = 1

\* C5: a read that returns no rows gives one handler reply, the "no
\* properties found" text
EmptySheetSoleReply ==
    PropertiesClick /\ fetch_ok /\ values = <<>> =>
        SelectSeq(calls, IsHandlerReply) = <<reply_text(NoPropertiesText, NoMarkup)>>

EmptySheet ==
    /\ PropertiesClick
    /\ fetch_ok
    /\ values = <<>>
    /\ Count(IsNoProperties) = 1

\* C6: rows with fewer than 6 cells add no call: the media-group attempts
\* are as many as the rows with 6 cells, the text replies of the handler are
\* the fallbacks of the failed sends and the closing message, and no error
\* message is sent
ShortRowsEmitNothing ==
    PropertiesClick /\ fetch_ok /\ values # <<>> =>
        /\ Count(IsMediaGroup) = Len(FullValues)
        /\ Count(IsHandlerReply) = Len(FullValues) + Count(IsFailedGroup) + 1
        /\ Count(IsFallback) = Count(IsFailedGroup)
        /\ Count(IsError) = 0
        /\ Count(IsClosing) = 1

ShortRowThenFullRow ==
    /\ PropertiesClick
    /\ fetch_ok
    /\ Len(values) = 2
    /\ ~IsFull(values[1])
    /\ IsFull(values[2])
    /\ Count(IsMediaGroup) = 1

\* C7: a properties click reads the spreadsheet once, on RANGE_NAME, also
\* when the read fails; no other update reads it
OneReadPerListingsRequest ==
    update # NoUpdate =>
        /\ Count(IsSheetGet) = (IF PropertiesClick THEN 1 ELSE 0)
        /\ \A i \in Idx : IsSheetGet(calls[i]) => calls[i].range = "Sheet1!A2:F"

FailedReadNotRetried ==
    /\ PropertiesClick
    /\ ~fetch_ok
    /\ Count(IsSheetGet) = 1

\* the positions of the commas of a cell, and the stretch between the
\* (k-1)-th and the k-th of them
CommaPos(f) == {i \in 1..Len(f) : f[i] = Comma}
NthComma(f, k) ==
    CHOOSE p \in CommaPos(f) : Cardinality({q \in CommaPos(f) : q < p}) = k - 1
PieceStart(f, k) == IF k = 1 THEN 1 ELSE NthComma(f, k - 1) + 1
PieceEnd(f, k) == IF k = Cardinality(CommaPos(f)) + 1 THEN Len(f) ELSE NthComma(f, k) - 1

\* u is f[lo..hi] less its leading and trailing whitespace
IsTrimOf(u, f, lo, hi) ==
    \E a \in lo..(hi + 1), b \in (lo - 1)..hi :
        /\ \A i \in lo..(a - 1) : f[i] \in Whitespace
        /\ \A i \in (b + 1)..hi : f[i] \in Whitespace
        /\ a <= b => f[a] \notin Whitespace /\ f[b] \notin Whitespace
        /\ u = SubSeq(f, a, b)

\* C8: the URLs of a listing's media group are the stretches between the
\* commas of the row's 6th cell, in order, each without its leading and
\* trailing whitespace
UrlsAreTrimmedPieces ==
    PropertiesClick /\ fetch_ok =>
        LET groups == MediaGroups
            rows == FullValues
        IN  /\ Len(groups) = Len(rows)
            /\ \A k \in 1..Len(groups) :
                LET f == rows[k][6]
                    m == groups[k].media
                IN  /\ Len(m) = Cardinality(CommaPos(f)) + 1
                    /\ \A j \in 1..Len(m) :
                           /\ IsTrimOf(m[j].media, f, PieceStart(f, j), PieceEnd(f, j))
                           /\ m[j].media # <<>> =>
                                  /\ Head(m[j].media) \notin Whitespace
                                  /\ m[j].media[Len(m[j].media)] \notin Whitespace

TwoUrlsSplitAndTrimmed ==
    /\ PropertiesClick
    /\ fetch_ok
    /\ Len(values) = 1
    /\ values[1][6] = <<"a", ",", " ", "b">>
    /\ Len(MediaGroups) = 1
    /\ MediaGroups[1].media[1].media = <<"a">>
    /\ MediaGroups[1].media[2].media = <<"b">>

\* the text shown with a listing reply: the caption of the group's first
\* item, or the text of the fallback
ShownText(c) == IF c.kind = "reply_media_group" THEN c.media[1].caption ELSE c.text

\* C9: with rows fetched, the replies the user sees for listings are one per
\* row with 6 cells, in row order (the k-th is the delivered media group of
\* the k-th such row when its send succeeded, its fallback text when not),
\* and one closing message follows all of them, just before the menu
ListingsContained ==
    PropertiesClick /\ fetch_ok /\ values # <<>> =>
        LET replies == ListingReplies
            rows == FullValues
            oks == FullOks
        IN  /\ Len(replies) = Len(rows)
            /\ \A k \in 1..Len(replies) :
                /\ (replies[k].kind = "reply_media_group") = oks[k]
                /\ \A n \in 1..5 : Contains(ShownText(replies[k]), rows[k][n])
            /\ Count(IsClosing) = 1
            /\ Len(calls) >= 2
            /\ IsClosing(calls[Len(calls) - 1])

FailedListingThenDeliveredListing ==
    /\ PropertiesClick
    /\ fetch_ok
    /\ Len(FullValues) = 2
    /\ FullOks = <<FALSE, TRUE>>
    /\ Len(ListingReplies) = 2
    /\ IsFallback(ListingReplies[1])
    /\ Count(IsClosing) = 1

IsBlank(f) == \A i \in 1..Len(f) : f[i] \in Whitespace

\* C10: every row with 6 cells gets a media-group attempt of at least one
\* item whose first item carries the display text; a blank 6th cell gives
\* the single empty URL; no text reply of the handler is a bare display
\* text (each is a fallback, the closing, the error or the no-properties
\* message)
MediaGroupAlwaysAttempted ==
    PropertiesClick /\ fetch_ok =>
        LET groups == MediaGroups
            rows == FullValues
        IN  /\ Len(groups) = Len(rows)
            /\ \A k \in 1..Len(groups) :
                LET m == groups[k].media
                IN  /\ Len(m) >= 1
                    /\ \A n \in 1..5 : Contains(m[1].caption, rows[k][n])
                    /\ \A j \in 2..Len(m) : m[j].caption = <<>>
                    /\ IsBlank(rows[k][6]) => Len(m) = 1 /\ m[1].media = <<>>
            /\ \A i \in Idx :
                calls[i].kind = "reply_text" /\ ~IsMenu(calls[i]) =>
                    \/ IsFallback(calls[i])
                    \/ IsClosing(calls[i])
                    \/ IsNoProperties(calls[i])

BlankCellOneEmptyUrl ==
    /\ PropertiesClick
    /\ fetch_ok
    /\ Len(values) = 1
    /\ IsFull(values[1])
    /\ values[1][6] = <<" ">>
    /\ Len(MediaGroups) = 1
    /\ Len(MediaGroups[1].media) = 1
    /\ MediaGroups[1].media[1].media = <<>>

====
